---- MODULE Spec2Model ----
(***************************************************************************)
(* Model of the WiZ light entity (homeassistant/components/wiz_light/      *)
(* light.py): the WizBulb snapshot, its poll cycle (async_update), the     *)
(* command dispatch (async_turn_on / async_turn_off) and the read-only     *)
(* properties derived from the cached capability descriptor.               *)
(***************************************************************************)
EXTENDS Integers, Sequences, FiniteSets, TLC

VARIABLES bulb, light, last, tasks

vars == <<bulb, light, last, tasks>>

(* Python's None and a present value. *)
None == <<>>
Some(x) == <<x>>

(***************************************************************************)
(* Values a field of the device's status can carry: absent, a number, or a *)
(* value the conversion in the adapter cannot evaluate.                    *)
(***************************************************************************)
Absent == [k |-> "none", v |-> 0]
Bad == [k |-> "bad", v |-> 0]
Num(n) == [k |-> "int", v |-> n]

NoRgb == [k |-> "none", v |-> <<0, 0, 0>>]
RedAbsent == [k |-> "nored", v |-> <<0, 0, 0>>]
BadRgb == [k |-> "bad", v |-> <<0, 0, 0>>]
Rgb(r, g, b) == [k |-> "rgb", v |-> <<r, g, b>>]

(* Bound of the model: see Statuses. *)
MaxDeviation == 1

(* Feature bits of the light platform. *)
SUPPORT_BRIGHTNESS == 1
SUPPORT_COLOR_TEMP == 2
SUPPORT_EFFECT == 4
SUPPORT_COLOR == 16

(* The reserved scene id of the rhythm mode. *)
RhythmSceneId == 1000

(***************************************************************************)
(* pywizlight.SCENES: scene id -> scene name.                              *)
(***************************************************************************)
SceneIds == (1..32) \cup {RhythmSceneId}

SCENES ==
    [id \in SceneIds |->
        CASE id = 1 -> "Ocean" [] id = 2 -> "Romance" [] id = 3 -> "Sunset"
          [] id = 4 -> "Party" [] id = 5 -> "Fireplace" [] id = 6 -> "Cozy"
          [] id = 7 -> "Forest" [] id = 8 -> "Pastel Colors"
          [] id = 9 -> "Wake up" [] id = 10 -> "Bedtime"
          [] id = 11 -> "Warm White" [] id = 12 -> "Daylight"
          [] id = 13 -> "Cool white" [] id = 14 -> "Night light"
          [] id = 15 -> "Focus" [] id = 16 -> "Relax"
          [] id = 17 -> "True colors" [] id = 18 -> "TV time"
          [] id = 19 -> "Plantgrowth" [] id = 20 -> "Spring"
          [] id = 21 -> "Summer" [] id = 22 -> "Fall"
          [] id = 23 -> "Deepdive" [] id = 24 -> "Jungle"
          [] id = 25 -> "Mojito" [] id = 26 -> "Club"
          [] id = 27 -> "Christmas" [] id = 28 -> "Halloween"
          [] id = 29 -> "Candlelight" [] id = 30 -> "Golden white"
          [] id = 31 -> "Pulse" [] id = 32 -> "Steampunk"
          [] OTHER -> "Rhythm"]

(* wizlight.get_id_from_scene_name: the id whose name is the given one. *)
get_id_from_scene_name(name) == CHOOSE id \in SceneIds : SCENES[id] = name

(***************************************************************************)
(* homeassistant.util.color                                                *)
(***************************************************************************)
(* color_temperature_kelvin_to_mired: floor(1000000 / kelvin). *)
color_temperature_kelvin_to_mired(kelvin) == 1000000 \div kelvin

(* color_temperature_mired_to_kelvin: floor(1000000 / mired). *)
color_temperature_mired_to_kelvin(mired) == 1000000 \div mired

Max3(a, b, c) ==
    IF a >= b /\ a >= c THEN a ELSE IF b >= c THEN b ELSE c

Min3(a, b, c) ==
    IF a <= b /\ a <= c THEN a ELSE IF b <= c THEN b ELSE c

(* round(n / d) for n >= 0, d > 0. *)
RoundDiv(n, d) == (2 * n + d) \div (2 * d)

(***************************************************************************)
(* color_RGB_to_hs: colorsys.rgb_to_hsv, hue in degrees and saturation in  *)
(* percent, each rounded to three decimals.  The result is held in         *)
(* thousandths: <<hue * 1000, saturation * 1000>>.                         *)
(***************************************************************************)
color_RGB_to_hs(r, g, b) ==
    LET maxc == Max3(r, g, b)
        minc == Min3(r, g, b)
        d == maxc - minc
        h6 == IF r = maxc THEN g - b
              ELSE IF g = maxc THEN 2 * d + b - r
              ELSE 4 * d + r - g
    IN  IF d = 0 THEN <<0, 0>>
        ELSE <<RoundDiv(60000 * ((h6 + 6 * d) % (6 * d)), d),
               RoundDiv(100000 * d, maxc)>>

(***************************************************************************)
(* color_hs_to_RGB(h, s) = color_hsv_to_RGB(h, s, 100): colorsys.hsv_to_rgb *)
(* with each channel truncated to int(channel * 255).  h in whole degrees, *)
(* s in whole percent.                                                     *)
(***************************************************************************)
color_hs_to_RGB(h, s) ==
    LET i == (h \div 60) % 6
        f == h % 60
        p == (255 * (100 - s)) \div 100
        q == (255 * (6000 - s * f)) \div 6000
        t == (255 * (6000 - s * (60 - f))) \div 6000
    IN  IF s = 0 THEN <<255, 255, 255>>
        ELSE CASE i = 0 -> <<255, t, p>>
               [] i = 1 -> <<q, 255, p>>
               [] i = 2 -> <<p, 255, t>>
               [] i = 3 -> <<p, q, 255>>
               [] i = 4 -> <<t, p, 255>>
               [] OTHER -> <<255, p, q>>

(***************************************************************************)
(* Inputs: what the device client can hand to the adapter.                 *)
(***************************************************************************)
(* Brightness values at and beyond both ends of the valid range 0..255. *)
BrightnessValues == {Absent, Bad, Num(-1), Num(0), Num(255), Num(256)}

ColortempValues == {Absent, Bad, Num(0), Num(2700)}

RgbValues == {NoRgb, RedAbsent, BadRgb, Rgb(255, 0, 0)}

SceneValues == {None, Some(SCENES[1])}

(***************************************************************************)
(* The parsed status (PilotParser) of one fetch.  The statuses the model   *)
(* draws differ from RefStatus, a lit bulb reporting every field, in at    *)
(* most MaxDeviation fields.                                               *)
(***************************************************************************)
AllStatuses ==
    [on : {None, Some(TRUE), Some(FALSE)},
     brightness : BrightnessValues,
     colortemp : ColortempValues,
     rgb : RgbValues,
     scene : SceneValues]

RefStatus ==
    [on |-> Some(TRUE), brightness |-> Num(255), colortemp |-> Num(2700),
     rgb |-> Rgb(255, 0, 0), scene |-> Some(SCENES[1])]

Deviation(st) ==
    Cardinality({f \in DOMAIN RefStatus : st[f] # RefStatus[f]})

Statuses == {st \in AllStatuses : Deviation(st) <= MaxDeviation}

(* A lit and a dark bulb reporting every field. *)
RefStatuses == {RefStatus, [RefStatus EXCEPT !.on = Some(FALSE)]}

(***************************************************************************)
(* Capability descriptors (BulbType).  known = FALSE is a model the        *)
(* library does not know: reading its features or kelvin range raises      *)
(* WizLightNotKnownBulb.                                                   *)
(***************************************************************************)
Features(br, co, ef, ct) ==
    [brightness |-> br, color |-> co, effect |-> ef, color_tmp |-> ct]

BulbType(name, known, features, kmin, kmax) ==
    [name |-> name, known |-> known, features |-> features,
     kelvin_range |-> [min |-> kmin, max |-> kmax]]

GenericType ==
    BulbType("ESP01_SHRGB1C_31", TRUE, Features(TRUE, TRUE, TRUE, TRUE), 2200, 6500)

BulbTypes ==
    {GenericType,
     BulbType("ESP56_SHTW3_01", TRUE, Features(TRUE, FALSE, TRUE, TRUE), 2200, 5500),
     BulbType("ESP99_UNKNOWN_01", FALSE, Features(FALSE, FALSE, FALSE, FALSE), 0, 0)}

MacValues == {"a8bb50d46a1c"}

(* How a call of the device client ends. *)
FetchResults == {"ok", "nodata", "timeout", "connerr"}
CallResults == {"ok", "timeout", "connerr"}

(***************************************************************************)
(* WizBulb.__init__                                                        *)
(***************************************************************************)
InitBulb ==
    [state |-> None, brightness |-> None, temperature |-> None,
     hscolor |-> None, available |-> None, effect |-> None,
     scenes |-> <<>>, bulbtype |-> None, mac |-> None]

(* wizlight: the status of the last fetch (None before the first one). *)
InitLight == [state |-> None]

(***************************************************************************)
(* Properties of WizBulb                                                   *)
(***************************************************************************)
is_on(b) == b.state

available(b) == b.available

unique_id(b) == b.mac

(* wizlight.status: the on/off flag of the held status. *)
LightStatus(l) == IF l.state = None THEN None ELSE l.state[1].on

(***************************************************************************)
(* update_state_available / update_state_unavailable                       *)
(***************************************************************************)
update_state_available(b, l) ==
    [b EXCEPT !.state = LightStatus(l), !.available = Some(TRUE)]

(* Mutant: marking the bulb unavailable also drops the cached brightness. *)
update_state_unavailable_Clearing(b) ==
    [b EXCEPT !.state = Some(FALSE), !.available = Some(FALSE),
              !.brightness = None]

(* Mutant: marking the bulb unavailable leaves the on/off flag alone. *)
update_state_unavailable_KeepsState(b) == [b EXCEPT !.available = Some(FALSE)]

update_state_unavailable(b) ==
    [b EXCEPT !.state = Some(FALSE), !.available = Some(FALSE)]

(* wizlight.updateState: what the client holds after the fetch. *)
LightAfterFetch(l, res, st) ==
    CASE res = "ok" -> [l EXCEPT !.state = Some(st)]
      [] res = "nodata" -> [l EXCEPT !.state = None]
      [] OTHER -> l

(***************************************************************************)
(* update_state: the snapshot after the fetch; a connection error is not   *)
(* caught and leaves the snapshot as it was.                               *)
(***************************************************************************)
update_state(b, l2, res) ==
    CASE res = "connerr" -> b
      [] res = "timeout" -> update_state_unavailable(b)
      [] l2.state = None -> update_state_unavailable(b)
      [] OTHER -> update_state_available(b, l2)

(***************************************************************************)
(* update_brightness                                                       *)
(***************************************************************************)
(* Mutant: a number out of range leaves the stored brightness alone. *)
update_brightness_KeepsInvalid(b, st) ==
    CASE st.brightness.k = "none" -> b
      [] st.brightness.k = "bad" -> [b EXCEPT !.state = None]
      [] 0 <= st.brightness.v /\ st.brightness.v <= 255 ->
            [b EXCEPT !.brightness = Some(st.brightness.v)]
      [] OTHER -> b

update_brightness(b, st) ==
    CASE st.brightness.k = "none" -> b
      [] st.brightness.k = "bad" -> [b EXCEPT !.state = None]
      [] 0 <= st.brightness.v /\ st.brightness.v <= 255 ->
            [b EXCEPT !.brightness = Some(st.brightness.v)]
      [] OTHER -> [b EXCEPT !.brightness = None]

(* The error-level log lines of update_brightness. *)
BrightnessErrors(st) ==
    CASE st.brightness.k = "none" -> {}
      [] st.brightness.k = "bad" -> {"brightness exception"}
      [] 0 <= st.brightness.v /\ st.brightness.v <= 255 -> {}
      [] OTHER -> {"invalid brightness"}

(***************************************************************************)
(* update_temperature                                                      *)
(***************************************************************************)
(* Mutant: a reported 0 is converted, the division fails, the value is dropped. *)
update_temperature_ZeroClears(b, st) ==
    CASE st.colortemp.k = "none" -> b
      [] st.colortemp.k = "bad" -> [b EXCEPT !.temperature = None]
      [] st.colortemp.v = 0 -> [b EXCEPT !.temperature = None]
      [] OTHER ->
            [b EXCEPT !.temperature =
                Some(color_temperature_kelvin_to_mired(st.colortemp.v))]

update_temperature(b, st) ==
    CASE st.colortemp.k = "none" -> b
      [] st.colortemp.k = "bad" -> [b EXCEPT !.temperature = None]
      [] st.colortemp.v = 0 -> b
      [] OTHER ->
            [b EXCEPT !.temperature =
                Some(color_temperature_kelvin_to_mired(st.colortemp.v))]

(***************************************************************************)
(* update_color                                                            *)
(***************************************************************************)
(* Mutant: no test of the red channel; the conversion fails, the value is dropped. *)
update_color_NoRedCheck(b, st) ==
    CASE st.rgb.k = "none" -> b
      [] st.rgb.k = "nored" -> [b EXCEPT !.hscolor = None]
      [] st.rgb.k = "bad" -> [b EXCEPT !.hscolor = None]
      [] OTHER ->
            [b EXCEPT !.hscolor =
                Some(color_RGB_to_hs(st.rgb.v[1], st.rgb.v[2], st.rgb.v[3]))]

update_color(b, st) ==
    CASE st.rgb.k = "none" -> b
      [] st.rgb.k = "nored" -> b
      [] st.rgb.k = "bad" -> [b EXCEPT !.hscolor = None]
      [] OTHER ->
            [b EXCEPT !.hscolor =
                Some(color_RGB_to_hs(st.rgb.v[1], st.rgb.v[2], st.rgb.v[3]))]

(* update_effect *)
update_effect(b, st) == [b EXCEPT !.effect = st.scene]

(* update_scene_list: the names of SCENES in the order of the table. *)
SceneOrder == [i \in 1..33 |-> IF i <= 32 THEN i ELSE RhythmSceneId]

SceneNames == [i \in 1..Len(SceneOrder) |-> SCENES[SceneOrder[i]]]

update_scene_list(b) == [b EXCEPT !.scenes = SceneNames]

(***************************************************************************)
(* The derived-attribute refresh of async_update, and its guard.           *)
(***************************************************************************)
(* Mutant: the refresh runs whenever the bulb is available. *)
RefreshGuard_Available(b) == b.available = Some(TRUE)

RefreshGuard(b) == b.state # None /\ b.state # Some(FALSE)

Refresh(b, st) ==
    update_scene_list(
        update_effect(
            update_color(
                update_temperature(
                    update_brightness(b, st), st), st), st))

(***************************************************************************)
(* get_bulb_type: fetches only while nothing is cached; a timeout is       *)
(* caught, a connection error is not.                                      *)
(***************************************************************************)
BulbTypeRequested(b) == b.bulbtype = None

get_bulb_type(b, res, bt) ==
    IF BulbTypeRequested(b) /\ res = "ok"
    THEN [b EXCEPT !.bulbtype = Some(bt)]
    ELSE b

(* Mutant: a failed identifier fetch clears the cached identifier. *)
get_mac_TimeoutClears(b, res, mac) ==
    [b EXCEPT !.mac = IF res = "ok" THEN Some(mac) ELSE None]

(* get_mac: fetches in every cycle. *)
get_mac(b, res, mac) ==
    IF res = "ok" THEN [b EXCEPT !.mac = Some(mac)] ELSE b

(***************************************************************************)
(* device_info: the metadata handed to the device registry.  The model     *)
(* name is read from the cached descriptor with no test that there is one, *)
(* both for the debug line and for the result.                             *)
(***************************************************************************)
EntityName == "WiZ bulb"

device_info(b) ==
    IF b.bulbtype = None
    THEN [raised |-> TRUE, value |-> None]
    ELSE [raised |-> FALSE,
          value |-> Some([identifiers |-> b.mac,
                          name |-> EntityName,
                          manufacturer |-> "WiZ Light Platform",
                          model |-> b.bulbtype[1].name])]

(***************************************************************************)
(* featuremap: the feature bits of the cached descriptor.  The bits are    *)
(* distinct, so or-ing them into 0 adds them.  Reading the features of a   *)
(* model the library does not know raises WizLightNotKnownBulb, which      *)
(* falls back to every feature.                                            *)
(***************************************************************************)
AllFeatures ==
    SUPPORT_BRIGHTNESS + SUPPORT_COLOR + SUPPORT_COLOR_TEMP + SUPPORT_EFFECT

Bit(flag, bit) == IF flag THEN bit ELSE 0

(* Mutant: an unknown model yields the bits collected so far, none. *)
featuremap_UnknownEmpty(b) ==
    LET t == b.bulbtype[1]
    IN  IF t.known
        THEN Bit(t.features.brightness, SUPPORT_BRIGHTNESS)
             + Bit(t.features.color, SUPPORT_COLOR)
             + Bit(t.features.effect, SUPPORT_EFFECT)
             + Bit(t.features.color_tmp, SUPPORT_COLOR_TEMP)
        ELSE 0

featuremap(b) ==
    LET t == b.bulbtype[1]
    IN  IF t.known
        THEN Bit(t.features.brightness, SUPPORT_BRIGHTNESS)
             + Bit(t.features.color, SUPPORT_COLOR)
             + Bit(t.features.effect, SUPPORT_EFFECT)
             + Bit(t.features.color_tmp, SUPPORT_COLOR_TEMP)
        ELSE AllFeatures

(* supported_features *)
supported_features(b) ==
    IF b.bulbtype # None THEN featuremap(b) ELSE AllFeatures

(* kelvin_max_map / kelvin_min_map *)
kelvin_max_map(b) ==
    LET t == b.bulbtype[1]
    IN  IF t.known
        THEN color_temperature_kelvin_to_mired(t.kelvin_range.max)
        ELSE 6500

kelvin_min_map(b) ==
    LET t == b.bulbtype[1]
    IN  IF t.known
        THEN color_temperature_kelvin_to_mired(t.kelvin_range.min)
        ELSE 2500

(* min_mireds / max_mireds *)
min_mireds(b) ==
    IF b.bulbtype # None THEN kelvin_max_map(b)
    ELSE color_temperature_kelvin_to_mired(6500)

max_mireds(b) ==
    IF b.bulbtype # None THEN kelvin_min_map(b)
    ELSE color_temperature_kelvin_to_mired(2500)

(***************************************************************************)
(* effect_list: the scene subset of the special models, read from _scenes  *)
(* by list index (Python indexes from 0), _scenes itself for any other     *)
(* cached descriptor, the empty list without a descriptor.  An index past  *)
(* the end of _scenes raises IndexError.                                   *)
(***************************************************************************)
SpecialSceneKeys(name) ==
    CASE name = "ESP56_SHTW3_01" -> <<8, 9, 14, 15, 17, 28, 29, 31>>
      [] name = "ESP06_SHDW9_01" -> <<8, 9, 13, 28, 30, 29, 31>>
      [] name = "ESP06_SHDW1_01" -> <<8, 9, 13, 28, 29, 31>>
      [] name = "ESP15_SHTW1_01I" ->
            <<5, 8, 9, 10, 11, 12, 13, 14, 15, 17, 28, 30, 29, 31>>
      [] OTHER -> <<>>

effect_list(b) ==
    IF b.bulbtype = None THEN [raised |-> FALSE, value |-> <<>>]
    ELSE LET keys == SpecialSceneKeys(b.bulbtype[1].name)
         IN  IF keys = <<>> THEN [raised |-> FALSE, value |-> b.scenes]
             ELSE IF \E i \in 1..Len(keys) : keys[i] + 1 > Len(b.scenes)
             THEN [raised |-> TRUE, value |-> <<>>]
             ELSE [raised |-> FALSE,
                   value |-> [i \in 1..Len(keys) |-> b.scenes[keys[i] + 1]]]

(***************************************************************************)
(* async_turn_on: the command object (PilotBuilder) built from the call's  *)
(* keyword arguments.                                                      *)
(***************************************************************************)
NoKwargs ==
    [rgb_color |-> None, hs_color |-> None, brightness |-> None,
     color_temp |-> None, effect |-> None]

EmptyPilot ==
    [rgb |-> None, brightness |-> None, colortemp |-> None, scene |-> None]

(* Mutant: a supplied RGB colour wins over the HS colour. *)
TurnOnRgb_RgbWins(kwargs) ==
    IF kwargs.rgb_color # None
    THEN kwargs.rgb_color
    ELSE IF kwargs.hs_color # None
    THEN Some(color_hs_to_RGB(kwargs.hs_color[1][1], kwargs.hs_color[1][2]))
    ELSE None

TurnOnRgb(kwargs) ==
    IF kwargs.hs_color # None
    THEN Some(color_hs_to_RGB(kwargs.hs_color[1][1], kwargs.hs_color[1][2]))
    ELSE kwargs.rgb_color

TurnOnColortemp(kwargs) ==
    IF kwargs.color_temp # None
    THEN Some(color_temperature_mired_to_kelvin(kwargs.color_temp[1]))
    ELSE None

TurnOnSceneId(kwargs) ==
    IF kwargs.effect # None
    THEN Some(get_id_from_scene_name(kwargs.effect[1]))
    ELSE None

(* Mutant: the rhythm scene is merged with the other arguments like any scene. *)
TurnOnPilot_AlwaysMerged(kwargs) ==
    [rgb |-> TurnOnRgb(kwargs), brightness |-> kwargs.brightness,
     colortemp |-> TurnOnColortemp(kwargs), scene |-> TurnOnSceneId(kwargs)]

TurnOnPilot(kwargs) ==
    IF TurnOnSceneId(kwargs) = Some(RhythmSceneId)
    THEN EmptyPilot
    ELSE [rgb |-> TurnOnRgb(kwargs), brightness |-> kwargs.brightness,
          colortemp |-> TurnOnColortemp(kwargs), scene |-> TurnOnSceneId(kwargs)]

(* The keyword arguments a caller can supply. *)
KwargsValues ==
    [rgb_color : {None, Some(<<0, 0, 255>>)},
     hs_color : {None, Some(<<210, 50>>)},
     brightness : {None, Some(128)},
     color_temp : {None, Some(370)},
     effect : {None, Some(SCENES[1]), Some(SCENES[RhythmSceneId])}]

Supplied(kwargs) ==
    Cardinality({f \in DOMAIN NoKwargs : kwargs[f] # None})

(* The plain call: no keyword argument. *)
KwargsCore == {kwargs \in KwargsValues : Supplied(kwargs) = 0}

(***************************************************************************)
(* The record of the most recent operation: for a poll cycle how each of   *)
(* its device-client calls ended, for a command dispatch what was sent.    *)
(***************************************************************************)
NoPoll ==
    [fetch |-> "none", bulbtype |-> "none", mac |-> "none",
     raised |-> FALSE, refreshed |-> FALSE, errors |-> {}]

NoCmd == [kwargs |-> NoKwargs, sent |-> <<>>]

InitLast == [op |-> "init", poll |-> NoPoll, cmd |-> NoCmd]

(***************************************************************************)
(* The poll cycles in flight: the scheduled poll of the entity platform    *)
(* and the update service registered by async_setup_entry both call        *)
(* async_update.  pc is the device-client call a cycle is suspended in;    *)
(* fetch and on are how its own status fetch ended and the flag it read.   *)
(***************************************************************************)
TaskIds == {"scheduled", "forced"}

IdleTask == [pc |-> "idle", fetch |-> "none", on |-> None]

InitTasks == [t \in TaskIds |-> IdleTask]

Init ==
    /\ bulb = InitBulb
    /\ light = InitLight
    /\ last = InitLast
    /\ tasks = InitTasks

(***************************************************************************)
(* async_update: one poll cycle.  fetch, btres and macres are the ends of  *)
(* the three device-client calls; l2 is the client after the status fetch, *)
(* bt and mac are what the other two calls return.  The result is the      *)
(* snapshot after the cycle and the record of the cycle.  An exception     *)
(* that no handler catches (a connection error) ends the cycle where it    *)
(* is raised.                                                              *)
(***************************************************************************)
async_update(b, l2, fetch, btres, bt, macres, mac) ==
    LET b1 == update_state(b, l2, fetch)
        raised1 == fetch = "connerr"
        requested == ~raised1 /\ BulbTypeRequested(b1)
        b2 == IF raised1 THEN b1 ELSE get_bulb_type(b1, btres, bt)
        raised2 == requested /\ btres = "connerr"
        ranmac == ~raised1 /\ ~raised2
        b3 == IF ranmac THEN get_mac(b2, macres, mac) ELSE b2
        raised3 == ranmac /\ macres = "connerr"
        raised == raised1 \/ raised2 \/ raised3
        refreshes == ~raised /\ RefreshGuard(b3)
    IN  [bulb |-> IF refreshes THEN Refresh(b3, l2.state[1]) ELSE b3,
         poll |->
            [fetch |-> fetch,
             bulbtype |-> IF raised1 THEN "notrun"
                          ELSE IF requested THEN btres ELSE "cached",
             mac |-> IF ranmac THEN macres ELSE "notrun",
             raised |-> raised,
             refreshed |-> refreshes,
             errors |-> IF refreshes THEN BrightnessErrors(l2.state[1]) ELSE {}]]

(***************************************************************************)
(* One poll cycle with the status drawn from statuses, the capability      *)
(* descriptor from types and the ends of the capability and identifier     *)
(* fetches from results.  Calls the cycle does not make get no answer.     *)
(***************************************************************************)
PollOf(statuses, types, results) ==
    \E fetch \in FetchResults :
    \E st \in IF fetch = "ok" THEN statuses ELSE {RefStatus} :
    \E btres \in IF fetch # "connerr" /\ BulbTypeRequested(bulb)
                 THEN results ELSE {"ok"} :
    \E bt \in IF fetch # "connerr" /\ BulbTypeRequested(bulb) /\ btres = "ok"
              THEN types ELSE {CHOOSE t \in types : TRUE} :
    \E macres \in IF fetch # "connerr" /\ btres # "connerr"
                  THEN results ELSE {"ok"} :
    \E mac \in MacValues :
        LET l2 == LightAfterFetch(light, fetch, st)
            r == async_update(bulb, l2, fetch, btres, bt, macres, mac)
        IN  /\ light' = l2
            /\ bulb' = r.bulb
            /\ last' = [op |-> "poll", poll |-> r.poll, cmd |-> NoCmd]
            /\ UNCHANGED tasks

(* Mutant: turning on also sets the on/off flag of the snapshot. *)
TurnOnOf_Optimistic(calls) ==
    \E kwargs \in calls :
        /\ last' = [op |-> "turn_on", poll |-> NoPoll,
                    cmd |-> [kwargs |-> kwargs, sent |-> <<TurnOnPilot(kwargs)>>]]
        /\ bulb' = [bulb EXCEPT !.state = Some(TRUE)]
        /\ UNCHANGED <<light, tasks>>

(* async_turn_on: one send of the command object; the snapshot is not touched. *)
TurnOnOf(calls) ==
    \E kwargs \in calls :
        /\ last' = [op |-> "turn_on", poll |-> NoPoll,
                    cmd |-> [kwargs |-> kwargs, sent |-> <<TurnOnPilot(kwargs)>>]]
        /\ UNCHANGED <<bulb, light, tasks>>

(* async_turn_off: one off command. *)
TurnOff ==
    /\ last' = [op |-> "turn_off", poll |-> NoPoll,
                cmd |-> [kwargs |-> NoKwargs, sent |-> <<"off">>]]
    /\ UNCHANGED <<bulb, light, tasks>>

(***************************************************************************)
(* Spec: the poll cycles over every status of the model, for a bulb of one *)
(* model whose capability and identifier fetches succeed or time out,      *)
(* with the plain commands.                                                *)
(***************************************************************************)
Poll == PollOf(Statuses, {GenericType}, {"ok", "timeout"})

TurnOn == TurnOnOf(KwargsCore)

Next == Poll \/ TurnOn \/ TurnOff

Spec == Init /\ [][Next]_vars

(***************************************************************************)
(* SpecCaps: the poll cycles over every capability descriptor of the       *)
(* model and every end of the three fetches, for a lit or dark bulb        *)
(* reporting every field.                                                  *)
(***************************************************************************)
PollCaps == PollOf(RefStatuses, BulbTypes, CallResults)

NextCaps == PollCaps \/ TurnOn \/ TurnOff

SpecCaps == Init /\ [][NextCaps]_vars

(***************************************************************************)
(* SpecCmd: the commands over every combination of keyword arguments, with *)
(* the poll cycles of a lit or dark bulb of one model.                     *)
(***************************************************************************)
PollRef == PollOf(RefStatuses, {GenericType}, {"ok", "timeout"})

TurnOnAny == TurnOnOf(KwargsValues)

NextCmd == PollRef \/ TurnOnAny \/ TurnOff

SpecCmd == Init /\ [][NextCmd]_vars

(***************************************************************************)
(* SpecInterleaved: two poll cycles that interleave at the suspension      *)
(* points of async_update, the three device-client calls.  Between two     *)
(* suspension points a cycle runs alone: update_state_available,           *)
(* update_state_unavailable and the five update_* calls never suspend.     *)
(***************************************************************************)
InterleavedStatuses == RefStatuses \cup {[RefStatus EXCEPT !.brightness = Bad]}

(* async_update up to the call of updateState. *)
StartCycle(t) ==
    /\ tasks[t].pc = "idle"
    /\ tasks' = [tasks EXCEPT ![t] = [IdleTask EXCEPT !.pc = "fetch"]]
    /\ last' = [op |-> "start", poll |-> NoPoll, cmd |-> NoCmd]
    /\ UNCHANGED <<bulb, light>>

(* updateState returns: update_state, then get_bulb_type up to its call of *)
(* get_bulbtype, or get_mac up to its call of getMac.                      *)
FetchDone(t) ==
    /\ tasks[t].pc = "fetch"
    /\ \E fetch \in FetchResults :
       \E st \in IF fetch = "ok" THEN InterleavedStatuses ELSE {RefStatus} :
        LET l2 == LightAfterFetch(light, fetch, st)
            b1 == update_state(bulb, l2, fetch)
        IN  /\ light' = l2
            /\ bulb' = b1
            /\ tasks' = [tasks EXCEPT ![t] =
                    [pc |-> IF fetch = "connerr" THEN "idle"
                            ELSE IF BulbTypeRequested(b1) THEN "bulbtype"
                            ELSE "mac",
                     fetch |-> fetch,
                     on |-> IF fetch = "ok" THEN st.on ELSE None]]
            /\ last' = [op |-> "fetched",
                        poll |-> [NoPoll EXCEPT !.fetch = fetch,
                                                !.raised = (fetch = "connerr")],
                        cmd |-> NoCmd]

(* get_bulbtype returns: the assignment of get_bulb_type, made whatever    *)
(* was cached in the meantime, then get_mac up to its call of getMac.      *)
bulbtype_fetched(b, res, bt) ==
    IF res = "ok" THEN [b EXCEPT !.bulbtype = Some(bt)] ELSE b

BulbTypeDone(t) ==
    /\ tasks[t].pc = "bulbtype"
    /\ \E res \in CallResults :
        /\ bulb' = bulbtype_fetched(bulb, res, GenericType)
        /\ tasks' = [tasks EXCEPT ![t].pc =
                        IF res = "connerr" THEN "idle" ELSE "mac"]
        /\ last' = [op |-> "bulbtype",
                    poll |-> [NoPoll EXCEPT !.fetch = tasks[t].fetch,
                                            !.bulbtype = res,
                                            !.raised = (res = "connerr")],
                    cmd |-> NoCmd]
        /\ UNCHANGED light

(* getMac returns: the assignment of get_mac, then the guard and the       *)
(* refresh of async_update, on the snapshot and the status as they are now. *)
MacDone(t) ==
    /\ tasks[t].pc = "mac"
    /\ \E res \in CallResults, mac \in MacValues :
        LET b1 == get_mac(bulb, res, mac)
            refreshes == res # "connerr" /\ RefreshGuard(b1)
        IN  /\ bulb' = IF refreshes THEN Refresh(b1, light.state[1]) ELSE b1
            /\ tasks' = [tasks EXCEPT ![t].pc = "idle"]
            /\ last' = [op |-> "mac",
                        poll |-> [fetch |-> tasks[t].fetch,
                                  bulbtype |-> "none",
                                  mac |-> res,
                                  raised |-> (res = "connerr"),
                                  refreshed |-> refreshes,
                                  errors |-> IF refreshes
                                             THEN BrightnessErrors(light.state[1])
                                             ELSE {}],
                        cmd |-> NoCmd]
            /\ UNCHANGED light

NextInterleaved ==
    \E t \in TaskIds :
        StartCycle(t) \/ FetchDone(t) \/ BulbTypeDone(t) \/ MacDone(t)

SpecInterleaved == Init /\ [][NextInterleaved]_vars

(***************************************************************************)
(* Claims                                                                  *)
(***************************************************************************)
PolledNow == last'.op = "poll"

RefreshedNow == PolledNow /\ last'.poll.refreshed

(* The status the refresh of this step read. *)
Reported == light'.state[1]

(* C1: if the status fetch of a poll cycle times out, then after the cycle *)
(* available is false and is_on is false, and the cached brightness, HS    *)
(* colour, colour temperature and effect are what they were before it.     *)
C1_TimeoutKeepsCache ==
    [][(PolledNow /\ last'.poll.fetch = "timeout") =>
        /\ available(bulb') = Some(FALSE)
        /\ is_on(bulb') = Some(FALSE)
        /\ bulb'.brightness = bulb.brightness
        /\ bulb'.hscolor = bulb.hscolor
        /\ bulb'.temperature = bulb.temperature
        /\ bulb'.effect = bulb.effect]_vars

(* A timed-out cycle of a bulb whose four display attributes are cached. *)
C1_Witness ==
    /\ last.op = "poll"
    /\ last.poll.fetch = "timeout"
    /\ available(bulb) = Some(FALSE)
    /\ is_on(bulb) = Some(FALSE)
    /\ bulb.brightness = Some(255)
    /\ bulb.hscolor = Some(<<0, 100000>>)
    /\ bulb.temperature = Some(370)
    /\ bulb.effect = Some("Ocean")

(* C2, as claimed: in a refresh, a reported brightness b in 0..255 is      *)
(* stored; any other reported b leaves the stored brightness at its        *)
(* previous value and logs an error.                                       *)
C2_Original ==
    [][(RefreshedNow /\ Reported.brightness.k # "none") =>
        IF /\ Reported.brightness.k = "int"
           /\ 0 <= Reported.brightness.v
           /\ Reported.brightness.v <= 255
        THEN bulb'.brightness = Some(Reported.brightness.v)
        ELSE /\ bulb'.brightness = bulb.brightness
             /\ last'.poll.errors # {}]_vars

(* C2, amended: in a refresh, a reported number b in 0..255 is stored; a   *)
(* reported number outside 0..255 clears the stored brightness to None and *)
(* logs an error; a reported value that is no number leaves the stored     *)
(* brightness at its previous value and logs an error.                     *)
C2_Amended ==
    [][(RefreshedNow /\ Reported.brightness.k # "none") =>
        CASE Reported.brightness.k = "bad" ->
                /\ bulb'.brightness = bulb.brightness
                /\ last'.poll.errors # {}
          [] 0 <= Reported.brightness.v /\ Reported.brightness.v <= 255 ->
                /\ bulb'.brightness = Some(Reported.brightness.v)
                /\ last'.poll.errors = {}
          [] OTHER ->
                /\ bulb'.brightness = None
                /\ last'.poll.errors = {"invalid brightness"}]_vars

(* A refresh that read brightness 256 (the cached brightness is gone). *)
C2_Witness ==
    /\ last.op = "poll"
    /\ last.poll.refreshed
    /\ light.state[1].brightness = Num(256)
    /\ bulb.brightness = None
    /\ bulb.temperature = Some(370)
    /\ "invalid brightness" \in last.poll.errors

(* C3: after a poll cycle whose status fetch timed out, failed to connect  *)
(* or returned no data, the availability flag is not true.                 *)
C3_UnavailableAfterFailedFetch ==
    (last.op = "poll" /\ last.poll.fetch \in {"timeout", "connerr", "nodata"})
        => available(bulb) # Some(TRUE)

(* C4: a poll cycle never raises to its caller. *)
C4_PollNeverRaises ==
    last.op = "poll" => ~last.poll.raised

(* C5: turning on with the effect that resolves to the reserved scene id   *)
(* sends a command with no brightness, colour, colour temperature or scene *)
(* set, whatever the other arguments.                                      *)
C5_RhythmSendsBareCommand ==
    (last.op = "turn_on" /\ last.cmd.kwargs.effect = Some("Rhythm")) =>
        /\ Len(last.cmd.sent) = 1
        /\ last.cmd.sent[1].rgb = None
        /\ last.cmd.sent[1].brightness = None
        /\ last.cmd.sent[1].colortemp = None
        /\ last.cmd.sent[1].scene = None

(* A rhythm call that supplied every other argument as well. *)
C5_Witness ==
    /\ last.op = "turn_on"
    /\ last.cmd.kwargs.effect = Some("Rhythm")
    /\ Supplied(last.cmd.kwargs) = 5
    /\ last.cmd.sent = <<EmptyPilot>>

(* C6, as claimed: turning on with an HS and an RGB colour sends a command *)
(* whose rgb field is the HS colour converted to RGB.                      *)
C6_Original ==
    (/\ last.op = "turn_on"
     /\ last.cmd.kwargs.hs_color # None
     /\ last.cmd.kwargs.rgb_color # None) =>
        last.cmd.sent[1].rgb =
            Some(color_hs_to_RGB(last.cmd.kwargs.hs_color[1][1],
                                 last.cmd.kwargs.hs_color[1][2]))

(* C6, amended: turning on with an HS and an RGB colour sends a command    *)
(* whose rgb field is the HS colour converted to RGB, the supplied RGB     *)
(* being ignored, unless the effect resolves to the reserved scene id: the *)
(* command then has no rgb field.                                          *)
C6_Amended ==
    (/\ last.op = "turn_on"
     /\ last.cmd.kwargs.hs_color # None
     /\ last.cmd.kwargs.rgb_color # None) =>
        IF last.cmd.kwargs.effect = Some("Rhythm")
        THEN last.cmd.sent[1].rgb = None
        ELSE last.cmd.sent[1].rgb =
                Some(color_hs_to_RGB(last.cmd.kwargs.hs_color[1][1],
                                     last.cmd.kwargs.hs_color[1][2]))

(* HS (210, 50) and RGB (0, 0, 255) supplied: (127, 191, 255) is sent. *)
C6_Witness ==
    /\ last.op = "turn_on"
    /\ last.cmd.kwargs.hs_color = Some(<<210, 50>>)
    /\ last.cmd.kwargs.rgb_color = Some(<<0, 0, 255>>)
    /\ last.cmd.sent[1].rgb = Some(<<127, 191, 255>>)

(* C7: for a model the library does not know, min_mireds is the mired      *)
(* conversion of 6500 K and max_mireds the mired conversion of 2500 K.     *)
C7_UnknownModelMireds ==
    (bulb.bulbtype # None /\ ~bulb.bulbtype[1].known) =>
        /\ min_mireds(bulb) = color_temperature_kelvin_to_mired(6500)
        /\ max_mireds(bulb) = color_temperature_kelvin_to_mired(2500)

(* C8: with no descriptor cached, or the descriptor of an unknown model,   *)
(* supported_features is the full feature set; with the descriptor of a    *)
(* known model it is the union of the bits whose capability flag is true.  *)
C8_SupportedFeatures ==
    IF bulb.bulbtype = None \/ ~bulb.bulbtype[1].known
    THEN supported_features(bulb) = 23
    ELSE \A n \in {1, 2, 4, 8, 16, 32, 64, 128} :
            ((supported_features(bulb) \div n) % 2 = 1) <=>
                \/ n = SUPPORT_BRIGHTNESS /\ bulb.bulbtype[1].features.brightness
                \/ n = SUPPORT_COLOR_TEMP /\ bulb.bulbtype[1].features.color_tmp
                \/ n = SUPPORT_EFFECT /\ bulb.bulbtype[1].features.effect
                \/ n = SUPPORT_COLOR /\ bulb.bulbtype[1].features.color

(* The descriptor of a known model without colour is cached: 1 + 2 + 4. *)
C8_Witness ==
    /\ bulb.bulbtype # None
    /\ bulb.bulbtype[1].known
    /\ ~bulb.bulbtype[1].features.color
    /\ supported_features(bulb) = 7

(* C9: if the colour temperature a refresh reads is 0 or absent, the       *)
(* cached mired value is what it was before the refresh.                   *)
C9_NoTemperatureKeepsMired ==
    [][(RefreshedNow /\ Reported.colortemp \in {Absent, Num(0)}) =>
        bulb'.temperature = bulb.temperature]_vars

(* A refresh that read 0 K while 370 mired was cached. *)
C9_Witness ==
    /\ last.op = "poll"
    /\ last.poll.refreshed
    /\ light.state[1].colortemp = Num(0)
    /\ bulb.temperature = Some(370)

(* C10: if the RGB value a refresh reads is absent or has no red channel,  *)
(* the cached HS colour is what it was before the refresh.                 *)
C10_NoRedKeepsHs ==
    [][(RefreshedNow /\ Reported.rgb \in {NoRgb, RedAbsent}) =>
        bulb'.hscolor = bulb.hscolor]_vars

(* A refresh that read an RGB value without red while an HS colour was cached. *)
C10_Witness ==
    /\ last.op = "poll"
    /\ last.poll.refreshed
    /\ light.state[1].rgb = RedAbsent
    /\ bulb.hscolor = Some(<<0, 100000>>)

(* C11: with no descriptor cached, with the descriptor of an unknown model *)
(* or of a model without a special scene subset, effect_list is the full   *)
(* scene table: every name of SCENES.                                      *)
C11_FullSceneTable ==
    (\/ bulb.bulbtype = None
     \/ ~bulb.bulbtype[1].known
     \/ SpecialSceneKeys(bulb.bulbtype[1].name) = <<>>) =>
        /\ ~effect_list(bulb).raised
        /\ {effect_list(bulb).value[i] : i \in 1..Len(effect_list(bulb).value)}
            = {SCENES[id] : id \in SceneIds}

(* C13: after a poll cycle whose status fetch succeeded and returned data, *)
(* available is true and is_on is the on/off flag of that status.          *)
C13_IsOnIsReported ==
    (last.op = "poll" /\ last.poll.fetch = "ok") =>
        /\ available(bulb) = Some(TRUE)
        /\ is_on(bulb) = light.state[1].on

(* C14: the refresh runs only in a cycle whose status fetch succeeded with *)
(* an on/off flag that is not false; in a cycle whose fetch failed or      *)
(* reported the bulb off, brightness, HS colour, colour temperature,       *)
(* effect and the scene-name list keep their values.                       *)
C14_RefreshOnlyWhenOn ==
    [][PolledNow =>
        /\ last'.poll.refreshed =>
              (last'.poll.fetch = "ok" /\ Reported.on = Some(TRUE))
        /\ (last'.poll.fetch # "ok" \/ Reported.on = Some(FALSE)) =>
              /\ ~last'.poll.refreshed
              /\ bulb'.brightness = bulb.brightness
              /\ bulb'.hscolor = bulb.hscolor
              /\ bulb'.temperature = bulb.temperature
              /\ bulb'.effect = bulb.effect
              /\ bulb'.scenes = bulb.scenes]_vars

(* A cycle that found the bulb off while every display attribute was cached. *)
C14_Witness ==
    /\ last.op = "poll"
    /\ last.poll.fetch = "ok"
    /\ light.state[1] = [RefStatus EXCEPT !.on = Some(FALSE)]
    /\ ~last.poll.refreshed
    /\ is_on(bulb) = Some(FALSE)
    /\ bulb.brightness = Some(0)
    /\ bulb.hscolor = Some(<<0, 100000>>)
    /\ bulb.temperature = Some(370)
    /\ bulb.effect = Some("Ocean")
    /\ bulb.scenes = SceneNames

(* C15: a poll cycle requests the capability descriptor exactly when none  *)
(* is cached, and a cached descriptor never changes.                       *)
C15_DescriptorRequestedIffAbsent ==
    [][PolledNow =>
        /\ (last'.poll.bulbtype \in CallResults) <=> (bulb.bulbtype = None)
        /\ bulb.bulbtype # None => bulb'.bulbtype = bulb.bulbtype]_vars

(* C16: a poll cycle issues an identifier fetch only if no identifier is   *)
(* cached.                                                                 *)
C16_IdentifierFetchedOnlyIfAbsent ==
    [][(PolledNow /\ bulb.mac # None) =>
        last'.poll.mac \notin CallResults]_vars

(* C18: in every reachable state, effect_list returns a list and does not  *)
(* fail.                                                                   *)
C18_EffectListNeverFails ==
    ~effect_list(bulb).raised

(* C19: in every reachable state, min_mireds <= max_mireds. *)
C19_MiredRangeNotEmpty ==
    min_mireds(bulb) <= max_mireds(bulb)

(* C17: a command dispatch issues exactly one send and changes no field of *)
(* the snapshot; the snapshot changes only in a poll cycle.                *)
C17_DispatchKeepsSnapshot ==
    [][/\ last'.op \in {"turn_on", "turn_off"} =>
            (Len(last'.cmd.sent) = 1 /\ bulb' = bulb)
       /\ bulb' # bulb => last'.op = "poll"]_vars

(* Brightness 128 was sent to a dark bulb: the snapshot still says off, 255. *)
C17_Witness ==
    /\ last.op = "turn_on"
    /\ Len(last.cmd.sent) = 1
    /\ last.cmd.sent[1].brightness = Some(128)
    /\ is_on(bulb) = Some(FALSE)
    /\ bulb.brightness = Some(255)

(* C20: with two poll cycles interleaving at the device-client calls, the  *)
(* refresh never runs on a snapshot whose available or is_on is false, and *)
(* is_on true implies available true in every reachable state.             *)
C20_InterleavedRefreshWhenOn ==
    /\ [](is_on(bulb) = Some(TRUE) => available(bulb) = Some(TRUE))
    /\ [][(last'.op = "mac" /\ last'.poll.refreshed) =>
            (is_on(bulb) = Some(TRUE) /\ available(bulb) = Some(TRUE))]_vars

(* A cycle whose own fetch timed out refreshes all the same: while it     *)
(* waited for the identifier, the other cycle read the bulb on.           *)
C20_Witness ==
    /\ last.op = "mac"
    /\ last.poll.fetch = "timeout"
    /\ last.poll.refreshed
    /\ is_on(bulb) = Some(TRUE)
    /\ available(bulb) = Some(TRUE)
    /\ bulb.brightness = Some(255)

(* C21: once an identifier is cached, a poll cycle whose identifier fetch  *)
(* times out leaves unique_id at its previous value.                       *)
C21_TimeoutKeepsUniqueId ==
    [][(PolledNow /\ last'.poll.mac = "timeout" /\ unique_id(bulb) # None) =>
            unique_id(bulb') = unique_id(bulb)]_vars

(* A cycle whose identifier fetch timed out ended with the identifier kept. *)
C21_Witness ==
    /\ last.op = "poll"
    /\ last.poll.mac = "timeout"
    /\ unique_id(bulb) = Some("a8bb50d46a1c")

(* C22: in every reachable state, reading the device metadata returns a    *)
(* value and does not fail.                                                *)
C22_DeviceInfoNeverFails == ~device_info(bulb).raised

====
